---- MODULE Spec2Model ----
(***************************************************************************)
(* Text generation of the build-llm scripts: generate_text_simple and      *)
(* generate (src/build-llm/05training.py), and the top-k script that       *)
(* precedes generate.  Logits are integers (the script's logits scaled by  *)
(* 100 where they are the script's own); a context is a sequence of token  *)
(* ids; a logit vector is a function from token ids 0..n-1.                *)
(***************************************************************************)
EXTENDS Integers, Sequences, FiniteSets, TLC

VARIABLES
    model,              \* the parameters of the model passed to the call
    call,               \* the arguments of the call, the same for every run
    idx,                \* idx[r]: the context of run r
    iter,               \* iter[r]: iterations of the for loop begun by run r
    pc,                 \* pc[r]: "loop", "returned" or "idle"
    idx_cond,           \* idx_cond[r]: input of run r's last forward pass
    raw_logits,         \* raw_logits[r]: last-position logits of that pass
    logits,             \* logits[r]: the logits idx_next was selected from
    idx_next,           \* idx_next[r]: the token selected last (<<>> if none)
    passes,             \* passes[r]: forward passes issued by run r
    stopped,            \* stopped[r]: run r left the loop by the break
    next_token_logits,  \* the script's logit vector
    sel_top_k,          \* the script's top_k (<<>> when no filter is applied)
    sel_fn,             \* whose selection is applied to the vector
    new_logits,         \* the vector after the top-k filter
    next_token_id,      \* the token greedy selection returns (<<>> if none)
    sel_pc,             \* "input", "filtered", "selected" or "idle"
    load,               \* load_weights_into_gpt: the model it loads into
    train,              \* train_model_simple: its arguments and locals
    store,              \* the MCP server's docs and the last call's outcome
    conv,               \* document_path_to_markdown: the call and its outcome
    dataset,            \* SpamDataset: the constructor's arguments and fields
    batch               \* generate on a batch of several prompts

genVars == <<model, call, idx, iter, pc, idx_cond, raw_logits, logits,
             idx_next, passes, stopped>>
selVars == <<next_token_logits, sel_top_k, sel_fn, new_logits,
             next_token_id, sel_pc>>
auxVars == <<load, train, store, conv, dataset, batch>>
vars == <<model, call, idx, iter, pc, idx_cond, raw_logits, logits,
          idx_next, passes, stopped, next_token_logits, sel_top_k, sel_fn,
          new_logits, next_token_id, sel_pc, load, train, store, conv,
          dataset, batch>>

----------------------------------------------------------------------------
(* Bounds of the model *)

VocabSize == 3
MaxNewTokens == 3

Vocab == 0 .. (VocabSize - 1)
LogitVals == {0, 1, 2}
PromptLens == {1, 2}
ContextSizes == {1, 2}
\* temperature in units of one half: 0 (greedy), 0.5 and 1.0
Temperatures == {0, 1, 2}
Runs == {1, 2}

\* Python's None, and a value that is present
None == <<>>
Some(x) == <<x>>

\* float("-inf"): below every logit
NegInf == -1000000

----------------------------------------------------------------------------
(* Tensors *)

Max(a, b) == IF a >= b THEN a ELSE b
Min(a, b) == IF a <= b THEN a ELSE b

Size(l) == Cardinality(DOMAIN l)

\* the largest entry of l among the positions S
MaxOver(l, S) == CHOOSE x \in {l[v] : v \in S} : \A v \in S : l[v] <= x

\* torch.argmax over the positions S: the first position of the maximum
ArgMaxLastOver(l, S) ==
    CHOOSE v \in S : l[v] = MaxOver(l, S) /\ \A u \in S : l[u] = l[v] => u <= v

ArgMaxOver(l, S) ==
    CHOOSE v \in S : l[v] = MaxOver(l, S) /\ \A u \in S : l[u] = l[v] => v <= u

ArgMaxLast(l) == ArgMaxLastOver(l, DOMAIN l)

ArgMax(l) == ArgMaxOver(l, DOMAIN l)

\* torch.topk(l, k): the k largest values, largest first
RECURSIVE TopKOver(_, _, _)
TopKOver(l, S, k) ==
    IF k = 0 \/ S = {} THEN <<>>
    ELSE LET v == ArgMaxOver(l, S)
         IN  <<l[v]>> \o TopKOver(l, S \ {v}, k - 1)

TopK(l, k) == TopKOver(l, DOMAIN l, k)

\* generate's filter: top_logits[:, -1] is the threshold, and torch.where puts
\* -inf where logits < min_val
TopKFilterLeq(l, k) ==
    LET top_logits == TopK(l, k)
        min_val == top_logits[Len(top_logits)]
    IN  [v \in DOMAIN l |-> IF l[v] <= min_val THEN NegInf ELSE l[v]]

TopKFilter(l, k) ==
    LET top_logits == TopK(l, k)
        min_val == top_logits[Len(top_logits)]
    IN  [v \in DOMAIN l |-> IF l[v] < min_val THEN NegInf ELSE l[v]]

\* logits / temperature, temperature in halves: -inf stays -inf
Scale(l, temperature) ==
    [v \in DOMAIN l |->
        IF l[v] = NegInf THEN NegInf ELSE (l[v] * 2) \div temperature]

RECURSIVE Pow2(_)
Pow2(n) == IF n <= 0 THEN 1 ELSE 2 * Pow2(n - 1)

Finite(l) == {v \in DOMAIN l : l[v] # NegInf}

\* torch.softmax, as the weights before the division by their sum, with base
\* 2 for e: 0 for -inf, and 2^(x - least finite x) otherwise
Softmax(l) ==
    LET low == CHOOSE x \in {l[v] : v \in Finite(l)} :
                   \A v \in Finite(l) : x <= l[v]
    IN  [v \in DOMAIN l |-> IF l[v] = NegInf THEN 0 ELSE Pow2(l[v] - low)]

\* torch.multinomial(probs, num_samples=1): any token of positive weight
MultinomialAll(probs) == DOMAIN probs

Multinomial(probs) == {v \in DOMAIN probs : probs[v] > 0}

----------------------------------------------------------------------------
(* The model: parameters and forward pass *)

Params == {[w_tok |-> 1, w_pos |-> 0], [w_tok |-> 2, w_pos |-> 1]}

RECURSIVE PosSum(_)
PosSum(w) ==
    IF w = <<>> THEN 0
    ELSE Len(w) * w[Len(w)] + PosSum(SubSeq(w, 1, Len(w) - 1))

\* model(idx_cond)[:, -1, :]: the logits of the last position, a function of
\* the parameters and of the tokens of the window
Forward(p, w) ==
    [v \in Vocab |->
        (p.w_tok * (w[Len(w)] + v) + p.w_pos * (PosSum(w) * (v + 1) + v * v))
            % Cardinality(LogitVals)]

----------------------------------------------------------------------------
(* generate_text_simple and generate *)

\* idx[:, -context_size:] for a batch of one
WindowAll(ctx, context_size) == ctx

Window(ctx, context_size) ==
    LET start == IF context_size > 0 THEN Max(0, Len(ctx) - context_size)
                 ELSE Min(0 - context_size, Len(ctx))
    IN  SubSeq(ctx, start + 1, Len(ctx))

\* torch.cat((idx, idx_next), dim=1)
CatFront(ctx, t) == <<t>> \o ctx

Cat(ctx, t) == Append(ctx, t)

\* for _ in range(max_new_tokens): no iteration is left
RangeDoneLate(i, max_new_tokens) == i > max_new_tokens

RangeDone(i, max_new_tokens) == i >= max_new_tokens

\* idx_next == eos_id
IsEosNever(t, eos_id) == FALSE

IsEos(t, eos_id) == eos_id # None /\ t = eos_id[1]

\* the else branch of generate: torch.argmax(logits, dim=-1, keepdim=True)
GreedyAnyMax(l) == {v \in DOMAIN l : \A u \in DOMAIN l : l[u] <= l[v]}

Greedy(l) == {ArgMax(l)}

\* lines 359-366 of generate
Filtered(l, top_k) == IF top_k # None THEN TopKFilter(l, top_k[1]) ELSE l

\* lines 367-368: the logits the token is selected from
Tempered(l, temperature) ==
    IF temperature > 0 THEN Scale(l, temperature) ELSE l

\* lines 367-372: the tokens idx_next can be
SelectedOneBased(l, temperature) ==
    IF temperature > 0 THEN {v + 1 : v \in Multinomial(Softmax(l))}
    ELSE {ArgMax(l) + 1}

Selected(l, temperature) ==
    IF temperature > 0 THEN Multinomial(Softmax(l)) ELSE Greedy(l)

Prompts == UNION {[1 .. n -> Vocab] : n \in PromptLens}

Calls ==
    [fn : {"generate", "generate_text_simple"},
     idx : Prompts,
     max_new_tokens : 0 .. MaxNewTokens,
     context_size : ContextSizes,
     temperature : Temperatures,
     top_k : {None} \cup {Some(k) : k \in 1 .. VocabSize},
     eos_id : {None} \cup {Some(t) : t \in Vocab}]

\* generate_text_simple has no temperature, top_k or eos_id
ValidCall(c) ==
    c.fn = "generate_text_simple" =>
        c.temperature = 0 /\ c.top_k = None /\ c.eos_id = None

\* the state before any call is made to the selection script
SelIdle ==
    /\ next_token_logits = <<>>
    /\ sel_top_k = None
    /\ sel_fn = "generate"
    /\ new_logits = <<>>
    /\ next_token_id = None
    /\ sel_pc = "idle"

\* the other functions and scripts have not been called
Idle == [pc |-> "idle"]

AuxIdle ==
    /\ load = Idle
    /\ train = Idle
    /\ store = Idle
    /\ conv = Idle
    /\ dataset = Idle
    /\ batch = Idle

\* the runs in Active are at the top of the loop, the others never start
GenInit(Active) ==
    /\ model \in Params
    /\ call \in {c \in Calls : ValidCall(c)}
    /\ idx = [r \in Runs |-> call.idx]
    /\ iter = [r \in Runs |-> 0]
    /\ pc = [r \in Runs |-> IF r \in Active THEN "loop" ELSE "idle"]
    /\ idx_cond = [r \in Runs |-> <<>>]
    /\ raw_logits = [r \in Runs |-> <<>>]
    /\ logits = [r \in Runs |-> <<>>]
    /\ idx_next = [r \in Runs |-> None]
    /\ passes = [r \in Runs |-> 0]
    /\ stopped = [r \in Runs |-> FALSE]

Init == GenInit({1}) /\ SelIdle /\ AuxIdle

\* optimizer.step() of the AdamW optimizer of lines 267-270: with gradients
\* it moves every parameter, without (grad is None) it moves none
AdamWStep(m, grad) ==
    IF grad = None THEN m ELSE CHOOSE m2 \in Params : m2 # m

\* a forward pass that also updates the parameters
PassWithUpdate(r, l, t) ==
    /\ idx_cond' = [idx_cond EXCEPT ![r] = Window(idx[r], call.context_size)]
    /\ raw_logits' = [raw_logits EXCEPT ![r] = Forward(model, idx_cond'[r])]
    /\ logits' = [logits EXCEPT ![r] = l]
    /\ idx_next' = [idx_next EXCEPT ![r] = Some(t)]
    /\ passes' = [passes EXCEPT ![r] = @ + 1]
    /\ model' = AdamWStep(model, Some(l))
    /\ UNCHANGED <<call, selVars, auxVars>>

\* lines 355-358 (9-13 of generate_text_simple), then the state both loops
\* share after an iteration that selected t from l
Pass(r, l, t) ==
    /\ idx_cond' = [idx_cond EXCEPT ![r] = Window(idx[r], call.context_size)]
    /\ raw_logits' = [raw_logits EXCEPT ![r] = Forward(model, idx_cond'[r])]
    /\ logits' = [logits EXCEPT ![r] = l]
    /\ idx_next' = [idx_next EXCEPT ![r] = Some(t)]
    /\ passes' = [passes EXCEPT ![r] = @ + 1]
    /\ UNCHANGED <<model, call, selVars, auxVars>>

\* the logits generate selects from in run r's next iteration
GenLogits(r) ==
    Tempered(
        Filtered(Forward(model, Window(idx[r], call.context_size)), call.top_k),
        call.temperature)

\* an iteration of generate that ends at line 376
GenerateAppend(r) ==
    /\ pc[r] = "loop" /\ call.fn = "generate"
    /\ ~RangeDone(iter[r], call.max_new_tokens)
    /\ \E t \in Selected(GenLogits(r), call.temperature) :
        /\ ~IsEos(t, call.eos_id)
        /\ idx' = [idx EXCEPT ![r] = Cat(idx[r], t)]
        /\ iter' = [iter EXCEPT ![r] = @ + 1]
        /\ Pass(r, GenLogits(r), t)
    /\ UNCHANGED <<pc, stopped>>

\* an iteration of generate that ends at the break of line 375
GenerateBreakAfterCat(r) ==
    /\ pc[r] = "loop" /\ call.fn = "generate"
    /\ ~RangeDone(iter[r], call.max_new_tokens)
    /\ \E t \in Selected(GenLogits(r), call.temperature) :
        /\ IsEos(t, call.eos_id)
        /\ idx' = [idx EXCEPT ![r] = Cat(idx[r], t)]
        /\ Pass(r, GenLogits(r), t)
    /\ pc' = [pc EXCEPT ![r] = "returned"]
    /\ stopped' = [stopped EXCEPT ![r] = TRUE]
    /\ UNCHANGED iter

GenerateBreak(r) ==
    /\ pc[r] = "loop" /\ call.fn = "generate"
    /\ ~RangeDone(iter[r], call.max_new_tokens)
    /\ \E t \in Selected(GenLogits(r), call.temperature) :
        /\ IsEos(t, call.eos_id)
        /\ Pass(r, GenLogits(r), t)
    /\ pc' = [pc EXCEPT ![r] = "returned"]
    /\ stopped' = [stopped EXCEPT ![r] = TRUE]
    /\ UNCHANGED <<idx, iter>>

\* an iteration of generate_text_simple
SimpleAppend(r) ==
    /\ pc[r] = "loop" /\ call.fn = "generate_text_simple"
    /\ ~RangeDone(iter[r], call.max_new_tokens)
    /\ LET probas == Softmax(Forward(model, Window(idx[r], call.context_size)))
       IN  \E t \in Greedy(probas) :
            /\ idx' = [idx EXCEPT ![r] = Cat(idx[r], t)]
            /\ iter' = [iter EXCEPT ![r] = @ + 1]
            /\ Pass(r, probas, t)
    /\ UNCHANGED <<pc, stopped>>

\* the loop is exhausted: return idx (line 377, line 17)
Return(r) ==
    /\ pc[r] = "loop"
    /\ RangeDone(iter[r], call.max_new_tokens)
    /\ pc' = [pc EXCEPT ![r] = "returned"]
    /\ UNCHANGED <<model, call, idx, iter, idx_cond, raw_logits, logits,
                   idx_next, passes, stopped, selVars, auxVars>>

Next ==
    \/ GenerateAppend(1)
    \/ GenerateBreak(1)
    \/ SimpleAppend(1)
    \/ Return(1)

Spec == Init /\ [][Next]_vars

----------------------------------------------------------------------------
(* The selection script: lines 302-351, and the selection of lines 359-372   *)
(* applied to one logit vector                                              *)

\* next_token_logits of line 316, times 100
ScriptLogits ==
    [v \in 0 .. 8 |->
        <<451, 89, -190, 675, 163, -162, -189, 628, 179>>[v + 1]]

\* the script's vector, and the script's vector with one logit set to another's
ScriptVectors ==
    {[ScriptLogits EXCEPT ![i] = ScriptLogits[j]] :
        i \in DOMAIN ScriptLogits, j \in DOMAIN ScriptLogits}

SmallVectors == [Vocab -> LogitVals]

\* no call of generate is in progress
GenIdle ==
    /\ GenInit({})
    /\ model = [w_tok |-> 1, w_pos |-> 0]
    /\ call = [fn |-> "generate", idx |-> <<0>>, max_new_tokens |-> 0,
               context_size |-> 1, temperature |-> 0, top_k |-> None,
               eos_id |-> None]

SelInit ==
    /\ GenIdle
    /\ AuxIdle
    /\ next_token_logits \in SmallVectors \cup ScriptVectors
    /\ sel_fn \in {"generate", "generate_text_simple"}
    /\ sel_top_k \in {None} \cup {Some(k) : k \in 1 .. Size(next_token_logits)}
    /\ sel_fn = "generate_text_simple" =>
            sel_top_k = None /\ next_token_logits \in SmallVectors
    /\ new_logits = <<>>
    /\ next_token_id = None
    /\ sel_pc = "input"

\* lines 359-366 (338-347 of the script)
ApplyTopK ==
    /\ sel_pc = "input"
    /\ new_logits' = Filtered(next_token_logits, sel_top_k)
    /\ sel_pc' = "filtered"
    /\ UNCHANGED <<genVars, auxVars, next_token_logits, sel_top_k, sel_fn,
                   next_token_id>>

\* line 372, and lines 14-15 of generate_text_simple
ApplyGreedy ==
    /\ sel_pc = "filtered"
    /\ \E t \in IF sel_fn = "generate" THEN Greedy(new_logits)
                ELSE Greedy(Softmax(new_logits)) :
            next_token_id' = Some(t)
    /\ sel_pc' = "selected"
    /\ UNCHANGED <<genVars, auxVars, next_token_logits, sel_top_k, sel_fn,
                   new_logits>>

SelNext == ApplyTopK \/ ApplyGreedy

SelSpec == SelInit /\ [][SelNext]_vars

----------------------------------------------------------------------------
(* Two runs of one greedy call *)

DetInit ==
    /\ GenInit(Runs)
    /\ call.temperature = 0
    /\ SelIdle
    /\ AuxIdle

DetNext ==
    \E r \in Runs :
        \/ GenerateAppend(r)
        \/ GenerateBreak(r)
        \/ SimpleAppend(r)
        \/ Return(r)

DetSpec == DetInit /\ [][DetNext]_vars

----------------------------------------------------------------------------
(* Properties of the generation loop *)

\* the token selected last by run r is the configured end-of-sequence id
EosSelected(r) == call.eos_id # None /\ idx_next[r] = call.eos_id

\* C1: when generate selects the end-of-sequence id at step k, that is after
\* k earlier forward passes that each appended a token, the run has returned
\* at once and its sequence has length prompt length + k, which is less than
\* prompt length + max_new_tokens.
C1_EarlyStop ==
    \A r \in Runs :
        (call.fn = "generate" /\ EosSelected(r)) =>
            /\ pc[r] = "returned"
            /\ Len(idx[r]) = Len(call.idx) + (passes[r] - 1)
            /\ passes[r] - 1 < call.max_new_tokens

C1_Witness ==
    /\ call.fn = "generate" /\ EosSelected(1)
    /\ passes[1] = 3
    /\ call.max_new_tokens = 3
    /\ call.temperature = 0

\* C2: with an end-of-sequence id configured, no position of the context
\* after the prompt holds it, in greedy mode and in sampling mode.
C2_EosNeverAppended ==
    \A r \in Runs :
        call.eos_id # None =>
            \A i \in (Len(call.idx) + 1) .. Len(idx[r]) :
                idx[r][i] # call.eos_id[1]

C2_Witness ==
    /\ call.temperature > 0 /\ EosSelected(1)
    /\ pc[1] = "returned"
    /\ Len(idx[1]) >= Len(call.idx) + 2
    /\ \E i \in 1 .. Len(call.idx) : call.idx[i] = call.eos_id[1]

\* the state part and the step part of C3
C3_PromptPrefix ==
    \A r \in Runs :
        /\ Len(idx[r]) = Len(call.idx) + iter[r]
        /\ SubSeq(idx[r], 1, Len(call.idx)) = call.idx

C3_StepAppends ==
    \A r \in Runs :
        /\ (iter[r]' # iter[r]) <=> (idx[r]' # idx[r])
        /\ idx[r]' # idx[r] =>
            /\ Len(idx[r]') = Len(idx[r]) + 1
            /\ SubSeq(idx[r]', 1, Len(idx[r])) = idx[r]
            /\ idx_next[r]' = Some(idx[r]'[Len(idx[r]')])

\* C3: the context is the prompt followed by one token per completed
\* iteration, and a step either leaves a context as it is or appends the
\* token just selected to it, keeping every earlier position.
C3_ContextGrowsByOne == []C3_PromptPrefix /\ [][C3_StepAppends]_vars

C3_Witness ==
    /\ call.fn = "generate_text_simple"
    /\ pc[1] = "returned"
    /\ iter[1] = 3
    /\ \E i \in 1 .. Len(idx[1]) : idx[1][i] # idx[1][Len(idx[1])]

\* what C4 asks of one step
C4_WindowOfStep ==
    \A r \in Runs :
        passes[r]' # passes[r] =>
            LET n == Min(Len(idx[r]), call.context_size)
            IN  /\ Len(idx_cond[r]') = n
                /\ n <= call.context_size
                /\ \A i \in 1 .. n :
                        idx_cond[r]'[i] = idx[r][Len(idx[r]) - n + i]
                /\ SubSeq(idx[r]', 1, Len(idx[r])) = idx[r]

\* C4: a step that issues a forward pass hands it exactly the last
\* min(len(context), context_size) tokens of the context, and the context
\* keeps every token it had, those left of the window included.
C4_SlidingWindow == [][C4_WindowOfStep]_vars

C4_Witness ==
    /\ Len(call.idx) > call.context_size
    /\ passes[1] >= 2
    /\ Len(idx[1]) > Len(call.idx)
    /\ Len(idx_cond[1]) = call.context_size

\* the state part and the step part of C5
C5_Bound ==
    \A r \in Runs :
        /\ passes[r] <= call.max_new_tokens
        /\ (pc[r] = "returned" /\ ~EosSelected(r)) =>
            /\ passes[r] = call.max_new_tokens
            /\ Len(idx[r]) = Len(call.idx) + call.max_new_tokens
        /\ (pc[r] = "returned" /\ call.max_new_tokens = 0) =>
            /\ passes[r] = 0
            /\ idx_cond[r] = <<>>
            /\ idx[r] = call.idx

C5_StepIsPassOrReturn ==
    \A r \in Runs :
        /\ pc[r] = "returned" => (pc[r]' = "returned" /\ passes[r]' = passes[r])
        /\ pc[r] = "loop" =>
            \/ passes[r]' = passes[r] + 1
            \/ passes[r]' = passes[r] /\ pc[r]' = "returned"
            \/ passes[r]' = passes[r] /\ pc[r]' = "loop" /\ idx[r]' = idx[r]

\* C5: a run issues at most max_new_tokens forward passes, and every step of
\* a run is one more forward pass or its return, so a run ends within
\* max_new_tokens + 1 steps; a run that returned without selecting the
\* end-of-sequence id issued exactly max_new_tokens passes and returns
\* prompt length + max_new_tokens tokens; with max_new_tokens = 0 it returns
\* the prompt without a forward pass.
C5_LoopBound == []C5_Bound /\ [][C5_StepIsPassOrReturn]_vars

C5_Witness ==
    /\ pc[1] = "returned"
    /\ call.eos_id # None /\ ~EosSelected(1)
    /\ call.max_new_tokens = 3
    /\ passes[1] = 3

\* C10: in sampling mode with a top-k filter the token drawn has a finite
\* logit after the filter, fewer than k tokens have a higher logit, and the
\* token appended is the token drawn.
C10_SampledTokenIsKept ==
    \A r \in Runs :
        (call.fn = "generate" /\ call.temperature > 0 /\ call.top_k # None
            /\ idx_next[r] # None) =>
            LET t == idx_next[r][1]
                raw == raw_logits[r]
            IN  /\ logits[r][t] # NegInf
                /\ Cardinality({v \in DOMAIN raw : raw[v] > raw[t]})
                        < call.top_k[1]
                /\ (iter[r] > 0 /\ ~EosSelected(r)) =>
                        idx[r][Len(idx[r])] = t

C10_Witness ==
    /\ call.temperature > 0 /\ call.top_k = Some(2)
    /\ iter[1] >= 2
    /\ \E v \in Vocab : logits[1][v] = NegInf
    /\ idx_next[1] # Some(ArgMax(raw_logits[1]))

\* C13: with a prompt of ids in [0, vocab_size), every id of the context is
\* in [0, vocab_size) after any number of steps, in greedy mode, in sampling
\* mode and with a top-k filter.
C13_TokenIdsInRange ==
    \A r \in Runs :
        (\A i \in 1 .. Len(call.idx) : call.idx[i] \in 0 .. (VocabSize - 1)) =>
            /\ \A i \in 1 .. Len(idx[r]) :
                    idx[r][i] >= 0 /\ idx[r][i] < VocabSize
            /\ idx_next[r] # None =>
                    idx_next[r][1] >= 0 /\ idx_next[r][1] < VocabSize

C13_Witness ==
    /\ call.temperature > 0 /\ call.top_k = Some(2)
    /\ iter[1] = 3
    /\ idx[1][Len(idx[1])] = VocabSize - 1
    /\ idx[1][Len(idx[1]) - 1] = 0

----------------------------------------------------------------------------
(* Properties of the selection *)

\* C6: after the filter exactly k logits are finite, each with its original
\* value, no filtered logit is higher than a kept one, and every other
\* position is negative infinity, ties at the k-th value included.
C6_TopKKeepsExactlyK ==
    (sel_pc # "input" /\ sel_pc # "idle" /\ sel_top_k # None) =>
        LET l == next_token_logits
            kept == Finite(new_logits)
        IN  /\ Cardinality(kept) = sel_top_k[1]
            /\ \A v \in kept : new_logits[v] = l[v]
            /\ \A v \in kept : \A u \in DOMAIN l \ kept : l[u] <= l[v]

\* C7: the token greedy selection returns is a position of the maximum logit
\* and the lowest such position, with or without the top-k filter.
C7_GreedyFirstMax ==
    sel_pc = "selected" =>
        /\ next_token_id # None
        /\ LET l == next_token_logits
               t == next_token_id[1]
           IN  /\ t \in DOMAIN l
               /\ \A v \in DOMAIN l : l[v] <= l[t]
               /\ \A v \in DOMAIN l : l[v] = l[t] => t <= v

C7_Witness ==
    /\ sel_pc = "selected" /\ sel_fn = "generate"
    /\ sel_top_k = Some(2)
    /\ next_token_id = Some(1)
    /\ \E v \in DOMAIN next_token_logits :
            v > 1 /\ next_token_logits[v] = next_token_logits[1]

\* C8: on the script's logits with top_k = 3 the filter leaves positions 3, 7
\* and 0 finite with logits 6.75, 6.28 and 4.51, the six others at negative
\* infinity, and greedy selection returns token 3.
C8_ScriptScenario ==
    (sel_pc = "selected" /\ sel_fn = "generate"
        /\ next_token_logits = ScriptLogits /\ sel_top_k = Some(3)) =>
        /\ Finite(new_logits) = {3, 7, 0}
        /\ new_logits[3] = 675 /\ new_logits[7] = 628 /\ new_logits[0] = 451
        /\ \A v \in {1, 2, 4, 5, 6, 8} : new_logits[v] = NegInf
        /\ next_token_id = Some(3)

C8_Witness ==
    /\ sel_pc = "selected" /\ sel_fn = "generate"
    /\ next_token_logits = ScriptLogits /\ sel_top_k = Some(3)
    /\ next_token_id = Some(3)

----------------------------------------------------------------------------
(* Two runs of one greedy call agree *)

\* C9: two greedy runs of one call that have issued the same number of
\* forward passes hold the same context, selected the same token from the
\* same logits, and two runs that returned return the same sequence.
C9_GreedyDeterministic ==
    /\ passes[1] = passes[2] =>
        /\ idx[1] = idx[2]
        /\ idx_next[1] = idx_next[2]
        /\ logits[1] = logits[2]
    /\ (pc[1] = "returned" /\ pc[2] = "returned") => idx[1] = idx[2]

C9_Witness ==
    /\ pc[1] = "returned" /\ pc[2] = "returned"
    /\ passes[1] = 3 /\ passes[2] = 3
    /\ idx[1] = idx[2]
    /\ \E u, v \in Vocab :
        /\ u # v
        /\ raw_logits[1][u] = raw_logits[1][v]
        /\ \A w \in Vocab : raw_logits[1][w] <= raw_logits[1][u]

----------------------------------------------------------------------------
(* load_weights_into_gpt (lines 432-497).  A shape is a sequence of          *)
(* dimensions: "C" context length, "V" vocabulary size, "E" embedding        *)
(* dimension, "3E", "4E"; "X" and "Y" are sizes the model has nowhere, "X"   *)
(* a multiple of 3 and "Y" not.  A checkpoint key is <<b, name>>, b = 0 for   *)
(* the top level of params and b >= 1 for params["blocks"][b - 1]; a model    *)
(* parameter is <<b, name>> in the same way.                                  *)

NLayers == 2

TopKeys == {<<0, n>> : n \in {"wpe", "wte", "g", "b"}}

BlockKeyNames ==
    {"attn.c_attn.w", "attn.c_attn.b", "attn.c_proj.w", "attn.c_proj.b",
     "mlp.c_fc.w", "mlp.c_fc.b", "mlp.c_proj.w", "mlp.c_proj.b",
     "ln_1.g", "ln_1.b", "ln_2.g", "ln_2.b"}

CkptKeys == TopKeys \cup {<<b, n>> : b \in 1 .. NLayers, n \in BlockKeyNames}

\* the shape a checkpoint of the model's configuration has under each key
GoodShape(key) ==
    CASE key[2] = "wpe" -> <<"C", "E">>
      [] key[2] = "wte" -> <<"V", "E">>
      [] key[2] = "attn.c_attn.w" -> <<"E", "3E">>
      [] key[2] = "attn.c_attn.b" -> <<"3E">>
      [] key[2] = "attn.c_proj.w" -> <<"E", "E">>
      [] key[2] = "mlp.c_fc.w" -> <<"E", "4E">>
      [] key[2] = "mlp.c_fc.b" -> <<"4E">>
      [] key[2] = "mlp.c_proj.w" -> <<"4E", "E">>
      [] OTHER -> <<"E">>

\* the shape of each parameter of GPTModel
ModelShape(target) ==
    CASE target[2] = "pos_emb.weight" -> <<"C", "E">>
      [] target[2] \in {"tok_emb.weight", "out_head.weight"} -> <<"V", "E">>
      [] target[2] \in {"att.W_query.weight", "att.W_key.weight",
                        "att.W_value.weight", "att.out_proj.weight"} ->
            <<"E", "E">>
      [] target[2] = "ff.layers[0].weight" -> <<"4E", "E">>
      [] target[2] = "ff.layers[0].bias" -> <<"4E">>
      [] target[2] = "ff.layers[2].weight" -> <<"E", "4E">>
      [] OTHER -> <<"E">>

\* one statement gpt.target = assign(gpt.target, array): the array is
\* params[key], or part `part` of np.split(params[key], 3, axis=-1), transposed
\* when t
Stmt(b, target, key, part, t) ==
    [target |-> <<b, target>>, key |-> <<b, key>>, part |-> part, T |-> t]

\* lines 450-493, for block b
BlockStmts(b) ==
    << Stmt(b, "att.W_query.weight", "attn.c_attn.w", 1, TRUE),
       Stmt(b, "att.W_key.weight", "attn.c_attn.w", 2, TRUE),
       Stmt(b, "att.W_value.weight", "attn.c_attn.w", 3, TRUE),
       Stmt(b, "att.W_query.bias", "attn.c_attn.b", 1, FALSE),
       Stmt(b, "att.W_key.bias", "attn.c_attn.b", 2, FALSE),
       Stmt(b, "att.W_value.bias", "attn.c_attn.b", 3, FALSE),
       Stmt(b, "att.out_proj.weight", "attn.c_proj.w", 0, TRUE),
       Stmt(b, "att.out_proj.bias", "attn.c_proj.b", 0, FALSE),
       Stmt(b, "ff.layers[0].weight", "mlp.c_fc.w", 0, TRUE),
       Stmt(b, "ff.layers[0].bias", "mlp.c_fc.b", 0, FALSE),
       Stmt(b, "ff.layers[2].weight", "mlp.c_proj.w", 0, TRUE),
       Stmt(b, "ff.layers[2].bias", "mlp.c_proj.b", 0, FALSE),
       Stmt(b, "norm1.scale", "ln_1.g", 0, FALSE),
       Stmt(b, "norm1.shift", "ln_1.b", 0, FALSE),
       Stmt(b, "norm2.scale", "ln_2.g", 0, FALSE),
       Stmt(b, "norm2.shift", "ln_2.b", 0, FALSE) >>

RECURSIVE AllBlockStmts(_)
AllBlockStmts(b) ==
    IF b > NLayers THEN <<>> ELSE BlockStmts(b) \o AllBlockStmts(b + 1)

\* the assignments of load_weights_into_gpt, in the order it makes them
LoadStmts ==
    << Stmt(0, "pos_emb.weight", "wpe", 0, FALSE),
       Stmt(0, "tok_emb.weight", "wte", 0, FALSE) >>
    \o AllBlockStmts(1)
    \o << Stmt(0, "final_norm.scale", "g", 0, FALSE),
          Stmt(0, "final_norm.shift", "b", 0, FALSE),
          Stmt(0, "out_head.weight", "wte", 0, FALSE) >>

GptParams == {LoadStmts[i].target : i \in 1 .. Len(LoadStmts)}

\* x.T
Transpose(shape) ==
    [i \in 1 .. Len(shape) |-> shape[Len(shape) + 1 - i]]

\* np.split(x, 3, axis=-1) divides the last dimension by 3, if it can
CanSplit3(shape) == shape[Len(shape)] \in {"3E", "X"}

Split3(shape) ==
    [shape EXCEPT ![Len(shape)] = IF @ = "3E" THEN "E" ELSE "X/3"]

\* the shape of the array statement st hands to assign
ArrayShape(params, st) ==
    LET a == IF st.part > 0 THEN Split3(params[st.key]) ELSE params[st.key]
    IN  IF st.T THEN Transpose(a) ELSE a

\* a checkpoint whose arrays under the keys of bad have a wrong last dimension
BadCkpt(bad) ==
    [key \in CkptKeys |->
        IF key \in DOMAIN bad
        THEN [GoodShape(key) EXCEPT ![Len(GoodShape(key))] = bad[key]]
        ELSE GoodShape(key)]

\* at most two arrays of the checkpoint have a wrong shape
Ckpts ==
    {BadCkpt(<<>>)}
    \cup {BadCkpt(k1 :> d1) : k1 \in CkptKeys, d1 \in {"X", "Y"}}
    \cup {BadCkpt((k1 :> d1) @@ (k2 :> d2)) :
            k1 \in CkptKeys, k2 \in CkptKeys, d1 \in {"X", "Y"},
            d2 \in {"X", "Y"}}

LoadInit ==
    /\ GenIdle /\ SelIdle
    /\ train = Idle /\ store = Idle /\ conv = Idle /\ dataset = Idle
    /\ batch = Idle
    /\ \E params \in Ckpts :
        load = [pc |-> "assign", next |-> 1, params |-> params,
                gpt |-> [t \in GptParams |->
                            [from |-> "init", shape |-> ModelShape(t)]],
                error |-> None]

\* assign(left, right), lines 432-437: the new parameter, or the error
Assign(left, right) ==
    IF left.shape # right
    THEN [raise |-> "ValueError", text |-> "Shape mismatch",
          left |-> left.shape, right |-> right]
    ELSE [from |-> "ckpt", shape |-> right]

\* the next statement of load_weights_into_gpt, with the np.split in front of
\* a first part
LoadAssign ==
    /\ load.pc = "assign" /\ load.next <= Len(LoadStmts)
    /\ LET st == LoadStmts[load.next]
       IN  IF st.part = 1 /\ ~CanSplit3(load.params[st.key])
           THEN load' = [load EXCEPT
                    !.pc = "raised",
                    !.error = Some([raise |-> "ValueError",
                                    text |-> "array split does not result in an equal division"])]
           ELSE LET new == Assign(load.gpt[st.target],
                                  ArrayShape(load.params, st))
                IN  IF "raise" \in DOMAIN new
                    THEN load' = [load EXCEPT !.pc = "raised",
                                              !.error = Some(new)]
                    ELSE load' = [load EXCEPT !.next = @ + 1,
                                              !.gpt[st.target] = new]
    /\ UNCHANGED <<genVars, selVars, train, store, conv, dataset, batch>>

\* the function returns after its last statement
LoadReturn ==
    /\ load.pc = "assign" /\ load.next > Len(LoadStmts)
    /\ load' = [load EXCEPT !.pc = "returned"]
    /\ UNCHANGED <<genVars, selVars, train, store, conv, dataset, batch>>

LoadNext == LoadAssign \/ LoadReturn

LoadSpec == LoadInit /\ [][LoadNext]_vars

\* C11: when the load has raised, the error is a ValueError that names the
\* expected and the received shape and no parameter of the model has been
\* replaced; a parameter that has been replaced has the shape it had and the
\* shape of the array it was given.
C11_LoadAllOrNothing ==
    /\ load.pc = "raised" =>
        /\ load.error # None
        /\ load.error[1].raise = "ValueError"
        /\ {"left", "right"} \subseteq DOMAIN load.error[1]
        /\ \A t \in GptParams : load.gpt[t].from = "init"
    /\ load.pc # "idle" =>
        \A t \in GptParams : load.gpt[t].shape = ModelShape(t)

----------------------------------------------------------------------------
(* train_model_simple with evaluate_model, calc_loss_loader and              *)
(* generate_and_print_sample (lines 149-249).  A batch is the pair of its    *)
(* input and target tensors; the model keeps the number of elements of the   *)
(* input and one target id.  A loss value is a fraction sum / n, or NaN.     *)

Batches == {[numel |-> 1, y |-> 0], [numel |-> 2, y |-> 1]}

TrainLoaders == UNION {[1 .. n -> Batches] : n \in 0 .. 2}

ValLoaders == UNION {[1 .. n -> Batches] : n \in 0 .. 1}

NumEpochs == {0, 1, 2}

EvalFreqs == {1, 2}

EvalIters == {0, 1, 2}

\* text_to_token_ids(start_context, tokenizer)
StartContexts == {<<0>>, <<1, 0>>}

NaN == [nan |-> TRUE, sum |-> 0, n |-> 0]

Mean(total, n) == [nan |-> FALSE, sum |-> total, n |-> n]

\* calc_loss_batch: the cross entropy of the model's logits against the targets
Loss(m, b) == 1 + ((m.w_tok * b.numel + m.w_pos + b.y) % 3)

\* total_loss after the loop of calc_loss_loader has seen the first n batches
RECURSIVE TotalLoss(_, _, _)
TotalLoss(data_loader, m, n) ==
    IF n <= 0 THEN 0
    ELSE TotalLoss(data_loader, m, n - 1) + Loss(m, data_loader[n])

\* calc_loss_loader (lines 160-179): the value returned, or the error raised by
\* the division of line 179
CalcLossLoader(data_loader, m, num_batches) ==
    IF Len(data_loader) = 0 THEN NaN
    ELSE LET n == IF num_batches = None THEN Len(data_loader)
                  ELSE Min(num_batches[1], Len(data_loader))
         IN  IF n = 0 THEN [raise |-> "ZeroDivisionError"]
             ELSE Mean(TotalLoss(data_loader, m, n), n)

\* the arguments of train_model_simple
TrainArgs ==
    [train_loader : TrainLoaders, val_loader : ValLoaders,
     num_epochs : NumEpochs, eval_freq : EvalFreqs, eval_iter : EvalIters]

\* entry of train_model_simple: line 192-193 have run; the model is in either
\* mode; the sample is generated from start_context with the context size of
\* the model
TrainInit ==
    /\ GenInit({})
    /\ call.fn = "generate_text_simple" /\ ValidCall(call)
    /\ call.idx \in StartContexts
    /\ call.max_new_tokens = MaxNewTokens
    /\ SelIdle
    /\ load = Idle /\ store = Idle /\ conv = Idle /\ dataset = Idle
    /\ batch = Idle
    /\ \E a \in TrainArgs, mode \in BOOLEAN :
        train = [pc |-> "epoch", args |-> a, entry_training |-> mode,
                 training |-> mode, epoch |-> 0, b |-> 1, last |-> "entry",
                 grad |-> None, loss |-> None, opt_steps |-> 0,
                 tokens_seen |-> 0, global_step |-> -1,
                 train_losses |-> <<>>, val_losses |-> <<>>,
                 track_tokens_seen |-> <<>>, steps_recorded |-> <<>>,
                 train_loss |-> None, val_loss |-> None, error |-> None]

\* line 195-196: the next epoch begins with model.train()
EpochBegin ==
    /\ train.pc = "epoch" /\ train.epoch < train.args.num_epochs
    /\ train' = [train EXCEPT !.pc = "batch", !.b = 1, !.training = TRUE,
                              !.last = "train()"]
    /\ UNCHANGED <<genVars, selVars, load, store, conv, dataset, batch>>

\* line 221: range(num_epochs) is exhausted
TrainReturn ==
    /\ train.pc = "epoch" /\ train.epoch >= train.args.num_epochs
    /\ train' = [train EXCEPT !.pc = "returned"]
    /\ UNCHANGED <<genVars, selVars, load, store, conv, dataset, batch>>

\* line 198
ZeroGrad ==
    /\ train.pc = "batch" /\ train.b <= Len(train.args.train_loader)
    /\ train' = [train EXCEPT !.pc = "loss", !.grad = None,
                              !.last = "zero_grad"]
    /\ UNCHANGED <<genVars, selVars, load, store, conv, dataset, batch>>

\* lines 199-201
CalcLossBatch ==
    /\ train.pc = "loss"
    /\ train' = [train EXCEPT
            !.pc = "backward",
            !.loss = Some(Loss(model, train.args.train_loader[train.b])),
            !.last = "loss"]
    /\ UNCHANGED <<genVars, selVars, load, store, conv, dataset, batch>>

\* line 202
Backward ==
    /\ train.pc = "backward"
    /\ train' = [train EXCEPT !.pc = "step", !.grad = train.loss,
                              !.last = "backward"]
    /\ UNCHANGED <<genVars, selVars, load, store, conv, dataset, batch>>

\* two optimizer steps for one batch
OptimizerStepTwice ==
    /\ train.pc = "step"
    /\ model' = AdamWStep(AdamWStep(model, train.grad), train.grad)
    /\ train' = [train EXCEPT !.pc = "count", !.opt_steps = @ + 2,
                              !.last = "step"]
    /\ UNCHANGED <<call, idx, iter, pc, idx_cond, raw_logits, logits,
                   idx_next, passes, stopped, selVars, load, store, conv,
                   dataset, batch>>

\* line 203
OptimizerStep ==
    /\ train.pc = "step"
    /\ model' = AdamWStep(model, train.grad)
    /\ train' = [train EXCEPT !.pc = "count", !.opt_steps = @ + 1,
                              !.last = "step"]
    /\ UNCHANGED <<call, idx, iter, pc, idx_cond, raw_logits, logits,
                   idx_next, passes, stopped, selVars, load, store, conv,
                   dataset, batch>>

\* the counters, with the test made on the step before the increment
CountTestBefore ==
    /\ train.pc = "count"
    /\ LET step == train.global_step
       IN  train' = [train EXCEPT
                !.tokens_seen = @ + train.args.train_loader[train.b].numel,
                !.global_step = step + 1,
                !.pc = IF step % train.args.eval_freq = 0 THEN "evaluate"
                       ELSE "batch",
                !.b = IF step % train.args.eval_freq = 0 THEN @ ELSE @ + 1]
    /\ UNCHANGED <<genVars, selVars, load, store, conv, dataset, batch>>

\* lines 204-207: the counters and the test of the if
Count ==
    /\ train.pc = "count"
    /\ LET step == train.global_step + 1
       IN  train' = [train EXCEPT
                !.tokens_seen = @ + train.args.train_loader[train.b].numel,
                !.global_step = step,
                !.pc = IF step % train.args.eval_freq = 0 THEN "evaluate"
                       ELSE "batch",
                !.b = IF step % train.args.eval_freq = 0 THEN @ ELSE @ + 1]
    /\ UNCHANGED <<genVars, selVars, load, store, conv, dataset, batch>>

\* line 224
EvalBegin ==
    /\ train.pc = "evaluate"
    /\ train' = [train EXCEPT !.pc = "eval_train", !.training = FALSE,
                              !.last = "eval()"]
    /\ UNCHANGED <<genVars, selVars, load, store, conv, dataset, batch>>

\* one call of calc_loss_loader by evaluate_model: the record after it
EvalLoss(which, data_loader, then) ==
    LET r == CalcLossLoader(data_loader, model, Some(train.args.eval_iter))
    IN  IF "raise" \in DOMAIN r
        THEN [train EXCEPT !.pc = "raised", !.error = Some(r.raise)]
        ELSE [train EXCEPT !.pc = then, ![which] = Some(r),
                           !.last = which]

\* lines 227-229
EvalTrainLoss ==
    /\ train.pc = "eval_train"
    /\ train' = EvalLoss("train_loss", train.args.train_loader, "eval_val")
    /\ UNCHANGED <<genVars, selVars, load, store, conv, dataset, batch>>

\* lines 230-232
EvalValLoss ==
    /\ train.pc = "eval_val"
    /\ train' = EvalLoss("val_loss", train.args.val_loader, "eval_end")
    /\ UNCHANGED <<genVars, selVars, load, store, conv, dataset, batch>>

\* evaluate_model without the model.train() of line 233
EvalEndStaysEval ==
    /\ train.pc = "eval_end"
    /\ train' = [train EXCEPT !.pc = "record",
                              !.last = "evaluate_model returns"]
    /\ UNCHANGED <<genVars, selVars, load, store, conv, dataset, batch>>

\* lines 233-234
EvalEnd ==
    /\ train.pc = "eval_end"
    /\ train' = [train EXCEPT !.pc = "record", !.training = TRUE,
                              !.last = "evaluate_model returns"]
    /\ UNCHANGED <<genVars, selVars, load, store, conv, dataset, batch>>

\* lines 211-217
Record ==
    /\ train.pc = "record"
    /\ train' = [train EXCEPT
            !.pc = "batch", !.b = @ + 1,
            !.train_losses = Append(@, train.train_loss[1]),
            !.val_losses = Append(@, train.val_loss[1]),
            !.track_tokens_seen = Append(@, train.tokens_seen),
            !.steps_recorded = Append(@, train.global_step)]
    /\ UNCHANGED <<genVars, selVars, load, store, conv, dataset, batch>>

\* lines 218, 237-241: the loader is exhausted, generate_and_print_sample
\* begins with model.eval() and calls generate_text_simple
SampleBegin ==
    /\ train.pc = "batch" /\ train.b > Len(train.args.train_loader)
    /\ train' = [train EXCEPT !.pc = "sample", !.training = FALSE,
                              !.last = "eval()"]
    /\ idx' = [idx EXCEPT ![1] = call.idx]
    /\ iter' = [iter EXCEPT ![1] = 0]
    /\ pc' = [pc EXCEPT ![1] = "loop"]
    /\ passes' = [passes EXCEPT ![1] = 0]
    /\ UNCHANGED <<model, call, idx_cond, raw_logits, logits, idx_next,
                   stopped, selVars, load, store, conv, dataset, batch>>

\* lines 246-249: generate_text_simple has returned
SampleEnd ==
    /\ train.pc = "sample" /\ pc[1] = "returned"
    /\ train' = [train EXCEPT !.pc = "epoch", !.epoch = @ + 1,
                              !.training = TRUE,
                              !.last = "generate_and_print_sample returns"]
    /\ pc' = [pc EXCEPT ![1] = "idle"]
    /\ UNCHANGED <<model, call, idx, iter, idx_cond, raw_logits, logits,
                   idx_next, passes, stopped, selVars, load, store, conv,
                   dataset, batch>>

TrainNext ==
    \/ EpochBegin
    \/ TrainReturn
    \/ ZeroGrad
    \/ CalcLossBatch
    \/ Backward
    \/ OptimizerStep
    \/ Count
    \/ EvalBegin
    \/ EvalTrainLoss
    \/ EvalValLoss
    \/ EvalEnd
    \/ Record
    \/ SampleBegin
    \/ SimpleAppend(1)
    \/ Return(1)
    \/ SampleEnd

TrainSpec == TrainInit /\ [][TrainNext]_vars

----------------------------------------------------------------------------
(* Properties of the training loop *)

\* the optimizer has stepped once for every batch the loop has finished
C15_Counts ==
    /\ train.pc = "batch" =>
        train.opt_steps =
            train.epoch * Len(train.args.train_loader) + (train.b - 1)
    /\ train.pc = "returned" =>
        /\ train.opt_steps =
                train.args.num_epochs * Len(train.args.train_loader)
        /\ train.opt_steps = train.global_step + 1

\* zero_grad, loss, backward and step follow one another directly, and no
\* evaluation loss and no sample token is computed between them
C15_Order ==
    /\ train.opt_steps' # train.opt_steps =>
        /\ train.opt_steps' = train.opt_steps + 1
        /\ train.last = "backward" /\ train.last' = "step"
    /\ train.last = "zero_grad" => train.last' \in {"zero_grad", "loss"}
    /\ train.last = "loss" => train.last' \in {"loss", "backward"}
    /\ train.last = "backward" => train.last' \in {"backward", "step"}
    /\ train.last' = "loss" /\ train.last # "loss" => train.last = "zero_grad"
    /\ train.last' = "backward" /\ train.last # "backward" =>
            train.last = "loss"
    /\ train.last \in {"zero_grad", "loss", "backward"} =>
        /\ passes' = passes
        /\ train.training' = train.training
        /\ train.train_losses' = train.train_losses

\* C15: in train_model_simple every batch runs zero_grad, the loss, backward
\* and the optimizer step in this order with no evaluation or sample between
\* zero_grad and the step; when the run returns the optimizer has stepped
\* num_epochs * (number of batches) times, which is global_step + 1.
C15_OneStepPerBatch == []C15_Counts /\ [][C15_Order]_vars

C15_Witness ==
    /\ train.pc = "returned"
    /\ train.args.num_epochs = 2 /\ Len(train.args.train_loader) = 2
    /\ train.opt_steps = 4 /\ train.global_step = 3
    /\ Len(train.train_losses) = 2

\* the mode of the model at the operations of the training loop and at the
\* return of the two helpers
C16_Modes ==
    /\ train.last \in {"loss", "backward", "step"} => train.training
    /\ train.last \in {"train_loss", "val_loss"} => ~train.training
    /\ train.last \in {"evaluate_model returns",
                       "generate_and_print_sample returns"} => train.training

\* a token of the sample is produced in evaluation mode
C16_SampleInEval ==
    passes[1]' = passes[1] + 1 => ~train.training /\ ~train.training'

\* C16: optimizer steps, their loss and backward run in training mode, the
\* losses of evaluate_model and the tokens of generate_and_print_sample in
\* evaluation mode, both helpers return with the model in training mode, and
\* the model is in training mode when train_model_simple returns.
C16_ModeProtocol ==
    /\ []C16_Modes
    /\ [][C16_SampleInEval]_vars
    /\ [](train.pc = "returned" => train.training)

\* C16, amended: as C16, but train_model_simple returns with the model in
\* training mode when num_epochs >= 1, and in the mode it was called in when
\* num_epochs = 0.
C16_ModeProtocolAmended ==
    /\ []C16_Modes
    /\ [][C16_SampleInEval]_vars
    /\ [](train.pc = "returned" =>
            /\ train.args.num_epochs >= 1 => train.training
            /\ train.args.num_epochs = 0 =>
                    train.training = train.entry_training)

C16_Witness ==
    /\ train.pc = "returned"
    /\ ~train.entry_training /\ train.training
    /\ train.epoch = 2 /\ Len(train.val_losses) >= 2
    /\ passes[1] = MaxNewTokens

\* the steps s of 0 .. n with s % eval_freq = 0
EvalSteps(n) == {s \in 0 .. n : s % train.args.eval_freq = 0}

\* the bookkeeping of lines 192-193 and 204-217
C17_Books ==
    train.pc # "idle" =>
        /\ train.global_step >= -1
        /\ train.opt_steps = 0 => train.global_step = -1
        /\ train.pc = "batch" =>
            train.global_step + 1 =
                train.epoch * Len(train.args.train_loader) + (train.b - 1)
        /\ Len(train.train_losses) = Len(train.val_losses)
        /\ Len(train.val_losses) = Len(train.track_tokens_seen)
        /\ Len(train.track_tokens_seen) = Len(train.steps_recorded)
        /\ \A i \in 1 .. Len(train.track_tokens_seen) - 1 :
                train.track_tokens_seen[i] < train.track_tokens_seen[i + 1]
        /\ \A i \in 1 .. Len(train.steps_recorded) - 1 :
                train.steps_recorded[i] < train.steps_recorded[i + 1]
        /\ {train.steps_recorded[i] : i \in 1 .. Len(train.steps_recorded)} =
                IF train.pc \in {"evaluate", "eval_train", "eval_val",
                                 "eval_end", "record", "raised"}
                THEN EvalSteps(train.global_step - 1)
                ELSE EvalSteps(train.global_step)

\* global_step counts by one and tokens_seen grows with it
C17_Counting ==
    /\ train.global_step' \in {train.global_step, train.global_step + 1}
    /\ train.tokens_seen' >= train.tokens_seen
    /\ train.global_step' # train.global_step =>
            train.tokens_seen' > train.tokens_seen

\* C17: global_step starts at -1 and counts the batches of all epochs, an
\* evaluation is recorded exactly at the steps with global_step % eval_freq
\* = 0, the three lists have equal length and track_tokens_seen is strictly
\* increasing.
C17_EvalBookkeeping == []C17_Books /\ [][C17_Counting]_vars

C17_Witness ==
    /\ train.pc = "returned"
    /\ train.args.eval_freq = 2 /\ train.global_step = 3
    /\ train.steps_recorded = <<0, 2>>
    /\ Len(train.track_tokens_seen) = 2

----------------------------------------------------------------------------
(* The calls of generate and generate_text_simple together with the training *)
(* loop                                                                      *)

ParamInit == Init \/ TrainInit

ParamNext == Next \/ TrainNext

ParamSpec == ParamInit /\ [][ParamNext]_vars

\* the parameters change only in the optimizer step of the training loop
C12_OnlyStepChanges ==
    model' # model =>
        /\ train.pc = "step" /\ train.last = "backward"
        /\ train.opt_steps' = train.opt_steps + 1
        /\ passes' = passes /\ idx' = idx

\* C12: no step of generate or generate_text_simple, in any decoding mode and
\* with or without early stop, changes a parameter of the model; the
\* parameters change only in the optimizer step of the training loop.
C12_ParametersFrame == [][C12_OnlyStepChanges]_vars

C12_Witness ==
    /\ call.fn = "generate" /\ call.temperature > 0 /\ call.top_k # None
    /\ pc[1] = "returned" /\ stopped[1]
    /\ passes[1] = 3

----------------------------------------------------------------------------
(* document_path_to_markdown (tools/document.py, lines 17-59).  A path is    *)
(* the sequence of the characters of its file name.                          *)

PathNames ==
    { <<"a", ".", "p", "d", "f">>,
      <<"a", ".", "P", "D", "F">>,
      <<"a", ".", "d", "o", "c", "x">>,
      <<"a", ".", "D", "o", "c", "X">>,
      <<"a", ".", "t", "x", "t">>,
      <<"a", ".", "t", "x", "t", ".", "p", "d", "f">>,
      <<"a", ".", "p", "d", "f", ".", "t", "x", "t">>,
      <<"p", "d", "f">>,
      <<".", "p", "d", "f">> }

\* what is at the path: nothing, a directory, a file that can be read, a file
\* whose open raises PermissionError, a file whose read raises another error
PathKinds == {"missing", "dir", "file", "file_no_permission", "file_io_error"}

FileContents == {"%PDF", "PK"}

\* str.lower() on one character
LowerChar(c) ==
    CASE c = "P" -> "p"
      [] c = "D" -> "d"
      [] c = "F" -> "f"
      [] c = "X" -> "x"
      [] OTHER -> c

LowerNoop(chars) == chars

\* str.lower()
Lower(chars) == [i \in 1 .. Len(chars) |-> LowerChar(chars[i])]

\* Path.suffix: the name from its last dot on, if that dot is not the first
\* character
Suffix(name) ==
    LET dots == {i \in 2 .. Len(name) : name[i] = "."}
    IN  IF dots = {} THEN <<>>
        ELSE LET d == CHOOSE i \in dots : \A j \in dots : j <= i
             IN  SubSeq(name, d, Len(name))

SupportedTypes == { <<".", "p", "d", "f">>, <<".", "d", "o", "c", "x">> }

ConvInit ==
    /\ GenIdle /\ SelIdle
    /\ load = Idle /\ train = Idle /\ store = Idle /\ dataset = Idle
    /\ batch = Idle
    /\ \E path \in PathNames, kind \in PathKinds, data \in FileContents :
        conv = [pc |-> "exists", file_path |-> path, kind |-> kind,
                data |-> data, file_extension |-> None, binary_data |-> None,
                opened |-> 0, converted |-> 0, error |-> None,
                result |-> None]

\* lines 37-39
CheckExists ==
    /\ conv.pc = "exists"
    /\ conv' = IF conv.kind = "missing"
               THEN [conv EXCEPT !.pc = "raised",
                        !.error = Some(<<"FileNotFoundError", "File not found">>)]
               ELSE [conv EXCEPT !.pc = "is_file"]
    /\ UNCHANGED <<genVars, selVars, load, train, store, dataset, batch>>

\* lines 41-42
CheckIsFile ==
    /\ conv.pc = "is_file"
    /\ conv' = IF conv.kind = "dir"
               THEN [conv EXCEPT !.pc = "raised",
                        !.error = Some(<<"ValueError", "Path is not a file">>)]
               ELSE [conv EXCEPT !.pc = "extension"]
    /\ UNCHANGED <<genVars, selVars, load, train, store, dataset, batch>>

\* lines 45-47
CheckExtension ==
    /\ conv.pc = "extension"
    /\ LET file_extension == Lower(Suffix(conv.file_path))
       IN  conv' = IF file_extension \notin SupportedTypes
                   THEN [conv EXCEPT
                            !.pc = "raised",
                            !.file_extension = Some(file_extension),
                            !.error = Some(<<"ValueError",
                                             "Unsupported file type">>)]
                   ELSE [conv EXCEPT !.pc = "read",
                            !.file_extension = Some(file_extension)]
    /\ UNCHANGED <<genVars, selVars, load, train, store, dataset, batch>>

\* lines 50-56
ReadFile ==
    /\ conv.pc = "read"
    /\ conv' =
        CASE conv.kind = "file_no_permission" ->
                [conv EXCEPT !.pc = "raised", !.opened = @ + 1,
                    !.error = Some(<<"PermissionError",
                                     "Permission denied reading file">>)]
          [] conv.kind = "file_io_error" ->
                [conv EXCEPT !.pc = "raised", !.opened = @ + 1,
                    !.error = Some(<<"RuntimeError", "Error reading file">>)]
          [] OTHER ->
                [conv EXCEPT !.pc = "convert", !.opened = @ + 1,
                    !.binary_data = Some(conv.data)]
    /\ UNCHANGED <<genVars, selVars, load, train, store, dataset, batch>>

\* line 59
ConvertToMarkdown ==
    /\ conv.pc = "convert"
    /\ conv' = [conv EXCEPT
            !.pc = "returned", !.converted = @ + 1,
            !.result = Some(<<"markdown of", conv.binary_data[1],
                              conv.file_extension[1]>>)]
    /\ UNCHANGED <<genVars, selVars, load, train, store, dataset, batch>>

ConvNext ==
    \/ CheckExists
    \/ CheckIsFile
    \/ CheckExtension
    \/ ReadFile
    \/ ConvertToMarkdown

ConvSpec == ConvInit /\ [][ConvNext]_vars

\* the names whose extension is .pdf or .docx in any letter case
C14_SupportedNames ==
    { <<"a", ".", "p", "d", "f">>,
      <<"a", ".", "P", "D", "F">>,
      <<"a", ".", "d", "o", "c", "x">>,
      <<"a", ".", "D", "o", "c", "X">>,
      <<"a", ".", "t", "x", "t", ".", "p", "d", "f">> }

\* C14: a call that has ended for a missing path has raised FileNotFoundError
\* whatever the extension; for a directory ValueError "Path is not a file"; for
\* a file whose lower-cased extension is not .pdf or .docx ValueError
\* "Unsupported file type"; the file is opened and converted only after the
\* three checks have passed, and nothing is converted when the call fails.
C14_ValidationOrder ==
    /\ conv.pc \in {"raised", "returned"} =>
        /\ conv.kind = "missing" =>
            conv.error = Some(<<"FileNotFoundError", "File not found">>)
        /\ conv.kind = "dir" =>
            conv.error = Some(<<"ValueError", "Path is not a file">>)
        /\ conv.kind \notin {"missing", "dir"}
                /\ conv.file_path \notin C14_SupportedNames =>
            conv.error = Some(<<"ValueError", "Unsupported file type">>)
        /\ conv.kind = "file" /\ conv.file_path \in C14_SupportedNames =>
            /\ conv.pc = "returned" /\ conv.error = None
            /\ conv.converted = 1 /\ conv.binary_data = Some(conv.data)
    /\ conv.pc # "idle" =>
        /\ conv.opened + conv.converted > 0 =>
            /\ conv.kind \notin {"missing", "dir"}
            /\ conv.file_path \in C14_SupportedNames
        /\ conv.pc = "raised" => conv.converted = 0 /\ conv.result = None
        /\ conv.error # None /\ conv.error[1][1] \in
                {"FileNotFoundError", "ValueError"} => conv.opened = 0

C14_Witness ==
    /\ conv.pc = "raised"
    /\ conv.kind = "file"
    /\ conv.file_path = <<"a", ".", "p", "d", "f", ".", "t", "x", "t">>
    /\ conv.opened = 0
    /\ conv.error = Some(<<"ValueError", "Unsupported file type">>)

----------------------------------------------------------------------------
(* generate (lines 353-377) on a batch of B rows, greedy and without eos_id. *)
(* logits is a B x V matrix, rows 1 .. B, columns the token ids 0 .. V - 1.  *)

BatchSizes == {2, 3}

BatchNewTokens == {1, 2}

\* the batches of B prompts of one length
BatchPrompts ==
    UNION {[1 .. B -> [1 .. n -> Vocab]] : B \in BatchSizes, n \in PromptLens}

\* line 361 for every row: min_val[i] is the last of row i's top_k values
MinVal(rows, top_k) ==
    [i \in DOMAIN rows |-> TopK(rows[i], top_k)[Len(TopK(rows[i], top_k))]]

\* logits < min_val broadcasts a B x V matrix against a vector of B entries:
\* the vector is laid along the columns, which needs V = B (or one of them 1)
CanBroadcast(rows, min_val) ==
    \/ Len(min_val) = 1
    \/ VocabSize = 1
    \/ Len(min_val) = VocabSize

\* lines 362-366 when the shapes broadcast: entry [i, v] is compared with the
\* entry of min_val at column v
BatchFilter(rows, min_val) ==
    [i \in DOMAIN rows |->
        [v \in Vocab |->
            LET m == IF Len(min_val) = 1 THEN min_val[1] ELSE min_val[v + 1]
            IN  IF rows[i][v] < m THEN NegInf ELSE rows[i][v]]]

\* generate on one row alone, greedy, n iterations
RECURSIVE SoloGenerate(_, _, _, _, _)
SoloGenerate(m, row, n, context_size, top_k) ==
    IF n = 0 THEN row
    ELSE LET l == Filtered(Forward(m, Window(row, context_size)), top_k)
         IN  SoloGenerate(m, Cat(row, ArgMax(l)), n - 1, context_size, top_k)

BatchInit ==
    /\ GenInit({})
    /\ call = [fn |-> "generate", idx |-> <<0>>, max_new_tokens |-> 0,
               context_size |-> 1, temperature |-> 0, top_k |-> None,
               eos_id |-> None]
    /\ SelIdle
    /\ load = Idle /\ train = Idle /\ store = Idle /\ conv = Idle
    /\ dataset = Idle
    /\ \E prompts \in BatchPrompts, n \in BatchNewTokens,
          c \in ContextSizes,
          k \in {None} \cup {Some(j) : j \in 1 .. VocabSize} :
        batch = [pc |-> "loop", prompts |-> prompts, idx |-> prompts,
                 max_new_tokens |-> n, context_size |-> c, top_k |-> k,
                 iter |-> 0, error |-> None]

\* one iteration of the loop, lines 355-376, for all rows at once
BatchIterate ==
    /\ batch.pc = "loop"
    /\ ~RangeDone(batch.iter, batch.max_new_tokens)
    /\ LET rows == [i \in DOMAIN batch.idx |->
                        Forward(model, Window(batch.idx[i], batch.context_size))]
           min_val == MinVal(rows, batch.top_k[1])
       IN  IF batch.top_k # None /\ ~CanBroadcast(rows, min_val)
           THEN batch' = [batch EXCEPT !.pc = "raised",
                                       !.error = Some("RuntimeError")]
           ELSE LET new == IF batch.top_k # None
                           THEN BatchFilter(rows, min_val) ELSE rows
                IN  batch' = [batch EXCEPT
                        !.iter = @ + 1,
                        !.idx = [i \in DOMAIN batch.idx |->
                                    Cat(batch.idx[i], ArgMax(new[i]))]]
    /\ UNCHANGED <<genVars, selVars, load, train, store, conv, dataset>>

\* line 377
BatchReturn ==
    /\ batch.pc = "loop"
    /\ RangeDone(batch.iter, batch.max_new_tokens)
    /\ batch' = [batch EXCEPT !.pc = "returned"]
    /\ UNCHANGED <<genVars, selVars, load, train, store, conv, dataset>>

BatchNext == BatchIterate \/ BatchReturn

BatchSpec == BatchInit /\ [][BatchNext]_vars

\* C18: a greedy call of generate with a top-k filter and no eos_id on a batch
\* of B >= 2 prompts of equal length raises nothing and returns in each row
\* the sequence that generate returns for that row alone.
C18_BatchIndependent ==
    batch.pc # "idle" /\ batch.top_k # None =>
        /\ batch.pc # "raised"
        /\ batch.pc = "returned" =>
            \A i \in DOMAIN batch.idx :
                batch.idx[i] =
                    SoloGenerate(model, batch.prompts[i], batch.max_new_tokens,
                                 batch.context_size, batch.top_k)

----------------------------------------------------------------------------
(* The document store of the MCP server (cli_project/mcp_server.py).  A      *)
(* string is the sequence of its characters.                                 *)

MaxDocLen == 3

DocIds == {"report.pdf", "plan.md"}

\* the ids a caller passes: the ids of the store and one that is not there
CallIds == DocIds \cup {"missing.txt"}

OldStrings == { <<>>, <<"a">>, <<"b">>, <<"a", "a">> }

NewStrings == { <<>>, <<"b">>, <<"a", "a">> }

\* old occurs in text at position i
OccursAt(text, old, i) ==
    /\ i >= 1 /\ i + Len(old) - 1 <= Len(text)
    /\ \A j \in 1 .. Len(old) : text[i + j - 1] = old[j]

\* str.replace(old, new, 1) from position i on
ReplaceFirstFrom(text, old, new, i) ==
    LET hits == {j \in i .. Len(text) + 1 : OccursAt(text, old, j)}
    IN  IF hits = {} THEN SubSeq(text, i, Len(text))
        ELSE LET h == CHOOSE j \in hits : \A k \in hits : j <= k
             IN  SubSeq(text, i, h - 1) \o new
                    \o SubSeq(text, h + Len(old), Len(text))

\* str.replace(old, new) from position i on: the occurrences are taken from
\* the left and do not overlap; the empty string occurs before every
\* character and at the end
RECURSIVE ReplaceFrom(_, _, _, _)
ReplaceFrom(text, old, new, i) ==
    IF i > Len(text)
    THEN IF old = <<>> THEN new ELSE <<>>
    ELSE IF OccursAt(text, old, i)
         THEN IF old = <<>>
              THEN new \o <<text[i]>> \o ReplaceFrom(text, old, new, i + 1)
              ELSE new \o ReplaceFrom(text, old, new, i + Len(old))
         ELSE <<text[i]>> \o ReplaceFrom(text, old, new, i + 1)

ReplaceFirst(text, old, new) == ReplaceFirstFrom(text, old, new, 1)

Replace(text, old, new) == ReplaceFrom(text, old, new, 1)

\* the module has been loaded: lines 9-16, with two documents
StoreInit ==
    /\ GenIdle /\ SelIdle
    /\ load = Idle /\ train = Idle /\ conv = Idle /\ dataset = Idle
    /\ batch = Idle
    /\ store = [pc |-> "serving",
                docs |-> [d \in DocIds |->
                            IF d = "plan.md" THEN <<"a", "a">>
                            ELSE <<"a", "b">>],
                last |-> [op |-> "none"]]

\* what a call that finds no document does
NotFound(op, doc_id) ==
    [store EXCEPT !.last = [op |-> op, doc_id |-> doc_id,
                            raised |-> Some("ValueError"), returned |-> None]]

\* lines 23-29
ReadDocuments(doc_id) ==
    /\ store.pc = "serving"
    /\ store' = IF doc_id \notin DOMAIN store.docs
                THEN NotFound("read_documents", doc_id)
                ELSE [store EXCEPT
                        !.last = [op |-> "read_documents", doc_id |-> doc_id,
                                  raised |-> None,
                                  returned |-> Some(store.docs[doc_id])]]
    /\ UNCHANGED <<genVars, selVars, load, train, conv, dataset, batch>>

\* lines 36-44; the result is kept within MaxDocLen characters
EditDocument(doc_id, old_string, new_string) ==
    /\ store.pc = "serving"
    /\ doc_id \in DOMAIN store.docs =>
            Len(Replace(store.docs[doc_id], old_string, new_string))
                <= MaxDocLen
    /\ store' = IF doc_id \notin DOMAIN store.docs
                THEN [NotFound("edit_document", doc_id) EXCEPT
                        !.last = @ @@ [old_string |-> old_string,
                                       new_string |-> new_string]]
                ELSE [store EXCEPT
                        !.docs[doc_id] = Replace(@, old_string, new_string),
                        !.last = [op |-> "edit_document", doc_id |-> doc_id,
                                  old_string |-> old_string,
                                  new_string |-> new_string,
                                  before |-> store.docs[doc_id],
                                  raised |-> None, returned |-> None]]
    /\ UNCHANGED <<genVars, selVars, load, train, conv, dataset, batch>>

\* lines 52-53
ListDocs ==
    /\ store.pc = "serving"
    /\ store' = [store EXCEPT
            !.last = [op |-> "list_docs", raised |-> None,
                      returned |-> Some(DOMAIN store.docs)]]
    /\ UNCHANGED <<genVars, selVars, load, train, conv, dataset, batch>>

\* lines 60-63
FetchDoc(doc_id) ==
    /\ store.pc = "serving"
    /\ store' = IF doc_id \notin DOMAIN store.docs
                THEN NotFound("fetch_doc", doc_id)
                ELSE [store EXCEPT
                        !.last = [op |-> "fetch_doc", doc_id |-> doc_id,
                                  raised |-> None,
                                  returned |-> Some(store.docs[doc_id])]]
    /\ UNCHANGED <<genVars, selVars, load, train, conv, dataset, batch>>

StoreNext ==
    \/ \E doc_id \in CallIds : ReadDocuments(doc_id)
    \/ \E doc_id \in CallIds, old_string \in OldStrings,
          new_string \in NewStrings :
            EditDocument(doc_id, old_string, new_string)
    \/ ListDocs
    \/ \E doc_id \in CallIds : FetchDoc(doc_id)

StoreSpec == StoreInit /\ [][StoreNext]_vars

\* text with new put in place of the occurrences of old that start at the
\* positions of P, read from position i on
RECURSIVE C19_Subst(_, _, _, _, _)
C19_Subst(text, P, old, new, i) ==
    IF i > Len(text)
    THEN IF i \in P THEN new ELSE <<>>
    ELSE IF i \in P
         THEN IF old = <<>>
              THEN new \o <<text[i]>> \o C19_Subst(text, P, old, new, i + 1)
              ELSE new \o C19_Subst(text, P, old, new, i + Len(old))
         ELSE <<text[i]>> \o C19_Subst(text, P, old, new, i + 1)

\* P is a set of occurrences of old in text that do not overlap and leave no
\* occurrence of old untouched
C19_AllOccurrences(text, P, old) ==
    /\ \A i \in P : OccursAt(text, old, i)
    /\ \A i \in P, j \in P : i < j => i + Len(old) <= j
    /\ \A j \in 1 .. Len(text) + 1 :
            OccursAt(text, old, j) =>
                \E i \in P : IF old = <<>> THEN i = j
                             ELSE i < j + Len(old) /\ j < i + Len(old)

\* the set of ids stays the initial one
C19_IdsConstant == store.pc # "idle" => DOMAIN store.docs = DocIds

\* the effect of one call on the documents
C19_CallEffect ==
    store' # store =>
        LET c == store'.last
        IN  /\ c.op # "list_docs" /\ c.doc_id \notin DocIds =>
                /\ c.raised = Some("ValueError")
                /\ store'.docs = store.docs
            /\ c.op \in {"read_documents", "fetch_doc", "list_docs"} =>
                store'.docs = store.docs
            /\ c.op \in {"read_documents", "fetch_doc"}
                    /\ c.doc_id \in DocIds =>
                c.raised = None /\ c.returned = Some(store.docs[c.doc_id])
            /\ c.op = "list_docs" => c.returned = Some(DocIds)
            /\ c.op = "edit_document" /\ c.doc_id \in DocIds =>
                /\ c.raised = None
                /\ \A d \in DocIds \ {c.doc_id} :
                        store'.docs[d] = store.docs[d]
                /\ \E P \in SUBSET (1 .. Len(store.docs[c.doc_id]) + 1) :
                    /\ C19_AllOccurrences(store.docs[c.doc_id], P,
                                          c.old_string)
                    /\ store'.docs[c.doc_id] =
                            C19_Subst(store.docs[c.doc_id], P, c.old_string,
                                      c.new_string, 1)

\* C19: no call of read_documents, edit_document, list_docs or fetch_doc adds
\* or removes a document id; a call with an unknown id raises ValueError and
\* changes no document; edit_document changes only the addressed document,
\* putting new_string in place of every occurrence of old_string; the reads
\* change nothing.
C19_DocumentStore == []C19_IdsConstant /\ [][C19_CallEffect]_vars

C19_Witness ==
    /\ store.last.op = "edit_document"
    /\ store.last.doc_id = "report.pdf"
    /\ store.last.old_string = <<"a">> /\ store.last.new_string = <<"b">>
    /\ store.last.before = <<"a", "a", "a">>
    /\ store.docs["report.pdf"] = <<"b", "b", "b">>
    /\ store.docs["plan.md"] = <<"a", "a">>

----------------------------------------------------------------------------
(* SpamDataset.__init__ (06_finetunning.py, lines 75-96) *)

MaxTextLen == 3

MaxTexts == 2

PadTokenId == 50256

\* tokenizer.encode(text) of one row of the csv file
EncodedTexts == UNION {[1 .. n -> {0, 1}] : n \in 0 .. MaxTextLen}

\* the encodings of all rows
EncodedFiles == UNION {[1 .. n -> EncodedTexts] : n \in 0 .. MaxTexts}

\* max_length=None, or a length
MaxLengthArgs == {None} \cup {Some(n) : n \in 0 .. MaxTextLen + 1}

\* max((len(encoded_text) for ...), default=0)
LongestEncodedLength(texts) ==
    IF Len(texts) = 0 THEN 0
    ELSE CHOOSE n \in {Len(texts[i]) : i \in DOMAIN texts} :
            \A i \in DOMAIN texts : Len(texts[i]) <= n

\* encoded_text[-max_length:]
TruncateKeepLast(encoded_text, max_length) ==
    SubSeq(encoded_text, Max(1, Len(encoded_text) - max_length + 1),
           Len(encoded_text))

\* encoded_text[: max_length], max_length >= 0
Truncate(encoded_text, max_length) ==
    SubSeq(encoded_text, 1, Min(max_length, Len(encoded_text)))

\* encoded_text + [pad_token_id] * (max_length - len(encoded_text))
Pad(encoded_text, max_length, pad_token_id) ==
    encoded_text \o
        [i \in 1 .. (max_length - Len(encoded_text)) |-> pad_token_id]

\* lines 82-83 have run
DatasetInit ==
    /\ GenIdle /\ SelIdle
    /\ load = Idle /\ train = Idle /\ store = Idle /\ conv = Idle
    /\ batch = Idle
    /\ \E texts \in EncodedFiles, arg \in MaxLengthArgs :
        dataset = [pc |-> "max_length", texts |-> texts,
                   max_length_arg |-> arg, pad_token_id |-> PadTokenId,
                   max_length |-> None, encoded_texts |-> texts]

\* lines 85-91
DatasetMaxLength ==
    /\ dataset.pc = "max_length"
    /\ dataset' =
        IF dataset.max_length_arg = None
        THEN [dataset EXCEPT
                !.pc = "pad",
                !.max_length =
                    Some(LongestEncodedLength(dataset.encoded_texts))]
        ELSE [dataset EXCEPT
                !.pc = "pad",
                !.max_length = dataset.max_length_arg,
                !.encoded_texts =
                    [i \in DOMAIN dataset.encoded_texts |->
                        Truncate(dataset.encoded_texts[i],
                                 dataset.max_length_arg[1])]]
    /\ UNCHANGED <<genVars, selVars, load, train, store, conv, batch>>

\* lines 93-96
DatasetPad ==
    /\ dataset.pc = "pad"
    /\ dataset' = [dataset EXCEPT
            !.pc = "constructed",
            !.encoded_texts =
                [i \in DOMAIN dataset.encoded_texts |->
                    Pad(dataset.encoded_texts[i], dataset.max_length[1],
                        dataset.pad_token_id)]]
    /\ UNCHANGED <<genVars, selVars, load, train, store, conv, batch>>

DatasetNext == DatasetMaxLength \/ DatasetPad

DatasetSpec == DatasetInit /\ [][DatasetNext]_vars

\* C20: after construction every encoded text has length max_length; with
\* max_length = None that is the length of the longest encoding and every
\* encoding is kept whole; with a given max_length an encoding keeps its first
\* max_length tokens; in both cases the kept tokens are followed by
\* pad_token_id only.
C20_LengthUniformity ==
    dataset.pc = "constructed" =>
        LET n == dataset.max_length[1]
        IN  /\ dataset.max_length # None
            /\ Len(dataset.encoded_texts) = Len(dataset.texts)
            /\ dataset.max_length_arg = None =>
                /\ \A i \in DOMAIN dataset.texts : Len(dataset.texts[i]) <= n
                /\ dataset.texts # <<>> =>
                    \E i \in DOMAIN dataset.texts : Len(dataset.texts[i]) = n
                /\ dataset.texts = <<>> => n = 0
            /\ dataset.max_length_arg # None => dataset.max_length_arg[1] = n
            /\ \A i \in DOMAIN dataset.texts :
                LET item == dataset.encoded_texts[i]
                    text == dataset.texts[i]
                    kept == IF Len(text) <= n THEN Len(text) ELSE n
                IN  /\ Len(item) = n
                    /\ \A j \in 1 .. kept : item[j] = text[j]
                    /\ \A j \in kept + 1 .. n : item[j] = PadTokenId

C20_Witness ==
    /\ dataset.pc = "constructed"
    /\ dataset.max_length_arg = Some(2)
    /\ dataset.texts = << <<0, 1, 1>>, <<1>> >>
    /\ dataset.encoded_texts = << <<0, 1>>, <<1, PadTokenId>> >>

----------------------------------------------------------------------------
(* A call of calc_loss_loader (lines 160-179), statement by statement.  The  *)
(* record of the call is kept in train, which no other call is using.        *)

Loaders == UNION {[1 .. n -> Batches] : n \in 0 .. 3}

\* num_batches=None, or a number of batches
NumBatchesArgs == {None} \cup {Some(n) : n \in 0 .. 4}

\* entry of calc_loss_loader: line 161 has run
LoaderInit ==
    /\ GenInit({})
    /\ call = [fn |-> "generate", idx |-> <<0>>, max_new_tokens |-> 0,
               context_size |-> 1, temperature |-> 0, top_k |-> None,
               eos_id |-> None]
    /\ SelIdle
    /\ load = Idle /\ store = Idle /\ conv = Idle /\ dataset = Idle
    /\ batch = Idle
    /\ \E data_loader \in Loaders, arg \in NumBatchesArgs :
        train = [pc |-> "loader_entry", data_loader |-> data_loader,
                 num_batches_arg |-> arg, num_batches |-> arg,
                 i |-> 0, total_loss |-> 0, computed |-> 0,
                 result |-> None, error |-> None]

\* lines 162-168
LoaderBegin ==
    /\ train.pc = "loader_entry"
    /\ train' =
        IF Len(train.data_loader) = 0
        THEN [train EXCEPT !.pc = "loader_returned", !.result = Some(NaN)]
        ELSE IF train.num_batches = None
        THEN [train EXCEPT !.pc = "loader_loop",
                           !.num_batches = Some(Len(train.data_loader))]
        ELSE [train EXCEPT
                !.pc = "loader_loop",
                !.num_batches =
                    Some(Min(train.num_batches[1], Len(train.data_loader)))]
    /\ UNCHANGED <<genVars, selVars, load, store, conv, dataset, batch>>

\* lines 170-175: the loader yields batch i and its loss is added
LoaderBatch ==
    /\ train.pc = "loader_loop"
    /\ train.i < Len(train.data_loader)
    /\ train.i < train.num_batches[1]
    /\ train' = [train EXCEPT
            !.i = @ + 1,
            !.total_loss = @ + Loss(model, train.data_loader[train.i + 1]),
            !.computed = @ + 1]
    /\ UNCHANGED <<genVars, selVars, load, store, conv, dataset, batch>>

\* lines 170, 177-178: the loader is exhausted, or the break is taken
LoaderExit ==
    /\ train.pc = "loader_loop"
    /\ \/ train.i >= Len(train.data_loader)
       \/ train.i >= train.num_batches[1]
    /\ train' = [train EXCEPT !.pc = "loader_divide"]
    /\ UNCHANGED <<genVars, selVars, load, store, conv, dataset, batch>>

\* line 179
LoaderReturn ==
    /\ train.pc = "loader_divide"
    /\ train' =
        IF train.num_batches[1] = 0
        THEN [train EXCEPT !.pc = "loader_raised",
                           !.error = Some("ZeroDivisionError")]
        ELSE [train EXCEPT
                !.pc = "loader_returned",
                !.result = Some(Mean(train.total_loss, train.num_batches[1]))]
    /\ UNCHANGED <<genVars, selVars, load, store, conv, dataset, batch>>

LoaderNext ==
    \/ LoaderBegin
    \/ LoaderBatch
    \/ LoaderExit
    \/ LoaderReturn

LoaderSpec == LoaderInit /\ [][LoaderNext]_vars

\* the sum of the losses of the first n batches of the call's loader
RECURSIVE C21_SumOfFirst(_)
C21_SumOfFirst(n) ==
    IF n = 0 THEN 0
    ELSE C21_SumOfFirst(n - 1) + Loss(model, train.data_loader[n])

\* the n of the claim: len(loader), or min(num_batches, len(loader))
C21_N ==
    IF train.num_batches_arg = None THEN Len(train.data_loader)
    ELSE IF train.num_batches_arg[1] < Len(train.data_loader)
         THEN train.num_batches_arg[1]
         ELSE Len(train.data_loader)

\* C21: calc_loss_loader never computes more than n losses and raises nothing;
\* when it has ended it has returned NaN for an empty loader and otherwise the
\* mean of the losses of the first n batches, having computed exactly n losses,
\* where n is len(loader) for num_batches None and min(num_batches,
\* len(loader)) otherwise.
C21_MeanOfFirstN ==
    train.pc \in {"loader_entry", "loader_loop", "loader_divide",
                  "loader_returned", "loader_raised"} =>
        /\ train.computed <= C21_N
        /\ train.pc # "loader_raised"
        /\ train.pc = "loader_returned" =>
            IF Len(train.data_loader) = 0
            THEN train.result = Some(NaN) /\ train.computed = 0
            ELSE /\ train.computed = C21_N
                 /\ train.result # None
                 /\ ~train.result[1].nan
                 /\ train.result[1].n = C21_N /\ C21_N > 0
                 /\ train.result[1].sum = C21_SumOfFirst(C21_N)

====
